---- MODULE Spec2Model ----
(***************************************************************************)
(* A model of money-ts: the Currency registry (currency.ts) and the Money  *)
(* value class (money.ts), whose amount is a bigint of minor units.        *)
(*                                                                         *)
(* JavaScript numbers (the decimal arguments of Money.of, multipliedBy,    *)
(* dividedBy, percentage and the ratios of allocate) are modelled as exact *)
(* fractions [n |-> numerator, d |-> denominator].  The inputs the model   *)
(* draws are chosen so that the IEEE-754 double computation of             *)
(* Math.round(Number(v) * Math.pow(10, scale)) agrees with the exact one:  *)
(* either v is a small dyadic fraction (the product is exact), or the      *)
(* exact product is an integer or lies far from a .5 tie.                  *)
(***************************************************************************)
EXTENDS Integers, Sequences, FiniteSets, TLC

VARIABLES
  registry,  \* Currency.currencies: the process-wide Map from code to Currency
  a,         \* the receiver of the operation (a Money)
  b,         \* the Money argument of a binary operation
  op,        \* the operation that ran last
  args,      \* its other arguments
  result     \* what it returned or threw

vars == <<registry, a, b, op, args, result>>

(***************************************************************************)
(* Bounds of the model.                                                    *)
(***************************************************************************)
MaxPairAmount == 3
MaxAmount == 12
MaxNumerator == 20
MaxPercent == 100
MaxDivisor == 7
MaxAllocAmount == 7
MaxRatio == 3
MaxRatios == 3
MaxParts == 4
MaxSerialAmount == 2
MaxRenderAmount == 1100
MaxRegistryAmount == 1

(***************************************************************************)
(* Results: a returned value or a thrown error.                            *)
(***************************************************************************)
Ok(v) == [ok |-> TRUE, value |-> v]
Throw(e) == [ok |-> FALSE, error |-> e]

CurrencyMismatch == "Cannot operate on Money with different currencies"
UnknownCurrency == "Unknown currency"
DivisionByZero == "RangeError: Division by zero"
EmptyRatios == "Cannot allocate with an empty list of ratios."
NegativeRatios == "Cannot allocate with negative ratios."
ZeroRatios == "Cannot allocate to zero ratios."
InvalidArrayLength == "RangeError: Invalid array length"
UndefinedShare == "TypeError: shares[i] is undefined"
BigIntSyntaxError == "SyntaxError: Cannot convert to a BigInt"
BigIntTypeError == "TypeError: Cannot convert to a BigInt"
UndefinedCode == "TypeError: currencyCode.toUpperCase is not a function"

(***************************************************************************)
(* bigint and number arithmetic of the host.                               *)
(***************************************************************************)
Abs(x) == IF x < 0 THEN -x ELSE x

\* bigint / bigint: the quotient truncated toward zero (y # 0).
BigIntDiv(x, y) ==
  IF (x >= 0) = (y > 0) THEN Abs(x) \div Abs(y) ELSE -(Abs(x) \div Abs(y))

\* bigint % bigint: the remainder, with the sign of the dividend.
BigIntRem(x, y) == x - y * BigIntDiv(x, y)

\* Math.pow(10, scale) for a fraction-digit count.
Pow10(s) == IF s = 0 THEN 1 ELSE IF s = 1 THEN 10 ELSE IF s = 2 THEN 100
            ELSE IF s = 3 THEN 1000 ELSE 10000

\* A JavaScript number n/d (d > 0).
Num(n, d) == [n |-> n, d |-> d]
Whole(n) == Num(n, 1)

\* Math.round(n/d): the nearest integer, a tie going toward +Infinity.
MathRound(n, d) == (2 * n + d) \div (2 * d)

(***************************************************************************)
(* Strings are sequences of one-character strings.                         *)
(***************************************************************************)
LowerCaseLetters ==
  << "a", "b", "c", "d", "e", "f", "g", "h", "i", "j", "k", "l", "m",
     "n", "o", "p", "q", "r", "s", "t", "u", "v", "w", "x", "y", "z" >>
UpperCaseLetters ==
  << "A", "B", "C", "D", "E", "F", "G", "H", "I", "J", "K", "L", "M",
     "N", "O", "P", "Q", "R", "S", "T", "U", "V", "W", "X", "Y", "Z" >>

UpperChar(c) ==
  IF \E i \in DOMAIN LowerCaseLetters : LowerCaseLetters[i] = c
  THEN UpperCaseLetters[CHOOSE i \in DOMAIN LowerCaseLetters : LowerCaseLetters[i] = c]
  ELSE c

\* String.prototype.toUpperCase
ToUpperCase(str) == [i \in DOMAIN str |-> UpperChar(str[i])]

(***************************************************************************)
(* A JavaScript Map: its entries in insertion order.                       *)
(***************************************************************************)
EmptyMap == << >>

MapHas(map, key) == \E i \in DOMAIN map : map[i].key = key

MapGet(map, key) == map[CHOOSE i \in DOMAIN map : map[i].key = key].value

\* map.set(key, value): an existing key keeps its place.
MapSet(map, key, value) ==
  IF MapHas(map, key)
  THEN [i \in DOMAIN map |-> IF map[i].key = key THEN [key |-> key, value |-> value] ELSE map[i]]
  ELSE Append(map, [key |-> key, value |-> value])

(***************************************************************************)
(* Currency (currency.ts).  A Currency is the record of its readonly       *)
(* fields; the display name plays no part in any operation and is left     *)
(* out.                                                                    *)
(***************************************************************************)
CurrencyEntry(code, numericCode, digits) ==
  [code |-> code, numericCode |-> numericCode, defaultFractionDigits |-> digits]

USD == << "U", "S", "D" >>
EUR == << "E", "U", "R" >>
JPY == << "J", "P", "Y" >>
BHD == << "B", "H", "D" >>
CHF == << "C", "H", "F" >>

\* The entries the test suite loads, in its order.
MockCurrencyData ==
  << CurrencyEntry(USD, 840, 2), CurrencyEntry(EUR, 978, 2),
     CurrencyEntry(JPY, 392, 0), CurrencyEntry(CHF, 756, 2),
     CurrencyEntry(BHD, 48, 3) >>

\* Currency.loadIsoCurrencies(data): each entry is stored under entry.code as
\* given, a later entry replacing an earlier one of the same code.
RECURSIVE loadIsoCurrencies(_, _)
loadIsoCurrencies(currencies, data) ==
  IF data = << >> THEN currencies
  ELSE loadIsoCurrencies(MapSet(currencies, Head(data).code, Head(data)), Tail(data))

\* Currency.of(currencyCode) for a string: the Map is read at the upper-cased
\* argument.
CurrencyOf(currencies, currencyCode) ==
  IF MapHas(currencies, ToUpperCase(currencyCode))
  THEN Ok(MapGet(currencies, ToUpperCase(currencyCode)))
  ELSE Throw(UnknownCurrency)

\* Currency.of(currencyCode) for a number: the first Currency, in the Map's
\* order, with that numeric code.
CurrencyOfNumeric(currencies, numericCode) ==
  IF \E i \in DOMAIN currencies : currencies[i].value.numericCode = numericCode
  THEN Ok(currencies[CHOOSE i \in DOMAIN currencies :
                       /\ currencies[i].value.numericCode = numericCode
                       /\ \A j \in 1..(i - 1) : currencies[j].value.numericCode # numericCode].value)
  ELSE Throw(UnknownCurrency)

\* currency.is(other) for a Currency argument.
Is(c1, c2) == c1.code = c2.code

getDefaultFractionDigits(c) == c.defaultFractionDigits

\* currency.toJSON()
CurrencyToJSON(c) == c.code

\* The Currency objects the registry holds.
Loaded(currencies) == { currencies[i].value : i \in DOMAIN currencies }

(***************************************************************************)
(* Money (money.ts): the pair of a bigint amount and a Currency.           *)
(***************************************************************************)
Money(amount, currency) == [amount |-> amount, currency |-> currency]

\* toBigIntWithScale(value, scale): BigInt(Math.round(Number(value) * 10^scale)).
toBigIntWithScale(value, scale) == MathRound(value.n * Pow10(scale), value.d)

\* new Money(amount, currency) with a number: the constructor's rounding.
MoneyOf(value, currency) ==
  Money(toBigIntWithScale(value, getDefaultFractionDigits(currency)), currency)

\* Money.ofMinor(minorAmount, currency): the bigint is taken as it is.
MoneyOfMinor(minorAmount, currency) == Money(minorAmount, currency)

\* Money.zero(currency) for a Currency argument.
MoneyZero(currency) == MoneyOf(Whole(0), currency)

\* assertSameCurrency(other): TRUE when it throws.
MismatchThrown(this, other) == ~Is(this.currency, other.currency)

plus(this, other) ==
  IF MismatchThrown(this, other) THEN Throw(CurrencyMismatch)
  ELSE Ok(Money(this.amount + other.amount, this.currency))

\* minus as it would be if it added the other amount.
minusAdding(this, other) ==
  IF MismatchThrown(this, other) THEN Throw(CurrencyMismatch)
  ELSE Ok(Money(this.amount + other.amount, this.currency))

minus(this, other) ==
  IF MismatchThrown(this, other) THEN Throw(CurrencyMismatch)
  ELSE Ok(Money(this.amount - other.amount, this.currency))

\* equals as it would be if it compared the amounts only.
equalsAmountOnly(this, other) ==
  this.amount = other.amount

equals(this, other) ==
  this.amount = other.amount /\ Is(this.currency, other.currency)

\* compareTo as it would be without the call of assertSameCurrency.
compareToUnchecked(this, other) ==
  Ok(IF this.amount < other.amount THEN -1
     ELSE IF this.amount > other.amount THEN 1 ELSE 0)

\* compareTo as it would be if equal amounts compared as greater.
compareToNoTie(this, other) ==
  IF MismatchThrown(this, other) THEN Throw(CurrencyMismatch)
  ELSE Ok(IF this.amount < other.amount THEN -1 ELSE 1)

compareTo(this, other) ==
  IF MismatchThrown(this, other) THEN Throw(CurrencyMismatch)
  ELSE Ok(IF this.amount < other.amount THEN -1
          ELSE IF this.amount > other.amount THEN 1 ELSE 0)

\* The predicates derived from compareTo: its error propagates.
isGreaterThan(this, other) ==
  IF ~compareTo(this, other).ok THEN compareTo(this, other)
  ELSE Ok(compareTo(this, other).value = 1)

isGreaterThanOrSameAs(this, other) ==
  IF ~compareTo(this, other).ok THEN compareTo(this, other)
  ELSE Ok(compareTo(this, other).value = 1 \/ compareTo(this, other).value = 0)

isLessThan(this, other) ==
  IF ~compareTo(this, other).ok THEN compareTo(this, other)
  ELSE Ok(compareTo(this, other).value = -1)

isLessThanOrSameAs(this, other) ==
  IF ~compareTo(this, other).ok THEN compareTo(this, other)
  ELSE Ok(compareTo(this, other).value = -1 \/ compareTo(this, other).value = 0)

isSameAs(this, other) ==
  IF ~compareTo(this, other).ok THEN compareTo(this, other)
  ELSE Ok(compareTo(this, other).value = 0)

isZero(this) == this.amount = 0
isPositive(this) == this.amount > 0
isNegative(this) == this.amount < 0

\* negated as it would be if it returned the magnitude.
negatedToMagnitude(this) ==
  Money(IF this.amount < 0 THEN -this.amount ELSE this.amount, this.currency)

negated(this) == Money(this.amount * (-1), this.currency)

abs(this) == IF isNegative(this) THEN negated(this) ELSE this

(***************************************************************************)
(* The program's state after the currencies are loaded, and the operand    *)
(* sets the specifications draw from.                                      *)
(***************************************************************************)
NoArgs == [none |-> TRUE]
NoResult == [ok |-> TRUE, value |-> "none"]

\* Currency.loadIsoCurrencies(mockCurrencyData), as the test suite does first.
LoadedRegistry == loadIsoCurrencies(EmptyMap, MockCurrencyData)

PairMoneys ==
  { MoneyOfMinor(n, c) : n \in (-MaxPairAmount)..MaxPairAmount, c \in Loaded(LoadedRegistry) }

Moneys ==
  { MoneyOfMinor(n, c) : n \in (-MaxAmount)..MaxAmount, c \in Loaded(LoadedRegistry) }

(***************************************************************************)
(* Spec: two Money values and the operations that take a Money argument,   *)
(* together with the sign operations.                                      *)
(***************************************************************************)
Init ==
  /\ registry = LoadedRegistry
  /\ a \in PairMoneys
  /\ b \in PairMoneys
  /\ op = "init"
  /\ args = NoArgs
  /\ result = NoResult

\* One call receiver.method(b) by the caller, which has made none yet: the
\* operands stay as they are.
Call(name, res) ==
  /\ op = "init"
  /\ op' = name
  /\ args' = NoArgs
  /\ result' = res
  /\ UNCHANGED <<registry, a, b>>

\* plus as it would be if it stored the sum in the receiver.
PlusInPlace ==
  /\ op = "init"
  /\ op' = "plus"
  /\ args' = NoArgs
  /\ result' = plus(a, b)
  /\ a' = IF plus(a, b).ok THEN plus(a, b).value ELSE a
  /\ UNCHANGED <<registry, b>>

Plus == Call("plus", plus(a, b))
Minus == Call("minus", minus(a, b))
CompareTo == Call("compareTo", compareTo(a, b))
IsGreaterThan == Call("isGreaterThan", isGreaterThan(a, b))
IsGreaterThanOrSameAs == Call("isGreaterThanOrSameAs", isGreaterThanOrSameAs(a, b))
IsLessThan == Call("isLessThan", isLessThan(a, b))
IsLessThanOrSameAs == Call("isLessThanOrSameAs", isLessThanOrSameAs(a, b))
IsSameAs == Call("isSameAs", isSameAs(a, b))
EqualsOp == Call("equals", Ok(equals(a, b)))
AbsOp == Call("abs", Ok(abs(a)))
NegatedOp == Call("negated", Ok(negated(a)))

\* a.plus(b).minus(b): minus applied to the Money that plus returned.
PlusThenMinus ==
  /\ op = "plus"
  /\ result.ok
  /\ op' = "plus.minus"
  /\ args' = NoArgs
  /\ result' = minus(result.value, b)
  /\ UNCHANGED <<registry, a, b>>

\* a.negated().negated(): negated applied to the Money that negated returned.
NegatedTwice ==
  /\ op = "negated"
  /\ op' = "negated.negated"
  /\ args' = NoArgs
  /\ result' = Ok(negated(result.value))
  /\ UNCHANGED <<registry, a, b>>

\* b.compareTo(a), called after a.compareTo(b), whose result is kept.
CompareToReversed ==
  /\ op = "compareTo"
  /\ op' = "compareTo.reversed"
  /\ args' = [forward |-> result]
  /\ result' = compareTo(b, a)
  /\ UNCHANGED <<registry, a, b>>

Next ==
  \/ Plus
  \/ Minus
  \/ CompareTo
  \/ IsGreaterThan
  \/ IsGreaterThanOrSameAs
  \/ IsLessThan
  \/ IsLessThanOrSameAs
  \/ IsSameAs
  \/ EqualsOp
  \/ AbsOp
  \/ NegatedOp
  \/ PlusThenMinus
  \/ NegatedTwice
  \/ CompareToReversed

Spec == Init /\ [][Next]_vars

\* The operations that call assertSameCurrency, directly or through compareTo.
CurrencyCheckedOps ==
  { "plus", "minus", "compareTo", "isGreaterThan", "isGreaterThanOrSameAs",
    "isLessThan", "isLessThanOrSameAs", "isSameAs" }

\* C3: for a and b of the same currency, a.plus(b).minus(b) succeeds and equals
\* a: the minor amount and the currency of a come back exactly.
C3_PlusMinusRoundTrip ==
  (op = "plus.minus")
    => /\ result.ok
       /\ equals(result.value, a)
       /\ result.value.amount = a.amount

\* C3 witness: the chain ran on a negative a and a non-zero b of one currency.
C3_Witness ==
  /\ op = "plus.minus"
  /\ result.ok
  /\ a.amount < 0
  /\ b.amount > 0
  /\ a.currency.code = b.currency.code

\* C4: plus, minus, compareTo and the predicates derived from compareTo throw
\* the currency-mismatch error, and return nothing, whenever the two currency
\* codes differ, whatever the amounts.
C4_MismatchThrows ==
  (op \in CurrencyCheckedOps /\ a.currency.code # b.currency.code)
    => (~result.ok /\ result.error = CurrencyMismatch)

\* C4 witness: a derived predicate was called on equal amounts of two
\* currencies and threw.
C4_Witness ==
  /\ op = "isLessThanOrSameAs"
  /\ a.currency.code = USD
  /\ b.currency.code = JPY
  /\ a.amount = b.amount
  /\ ~result.ok

\* C24: abs returns the receiver when its amount is not negative and its exact
\* negation otherwise, so never a negative amount; negated flips the sign
\* exactly, and negated().negated() has the receiver's minor amount.
C24_AbsAndNegated ==
  /\ (op = "abs")
       => /\ result.ok
          /\ result.value = (IF a.amount >= 0 THEN a
                             ELSE [amount |-> -a.amount, currency |-> a.currency])
          /\ result.value.amount >= 0
  /\ (op = "negated")
       => /\ result.ok
          /\ result.value = [amount |-> -a.amount, currency |-> a.currency]
  /\ (op = "negated.negated")
       => /\ result.ok
          /\ result.value = a

\* negated ran twice on a positive amount.
C24_Witness ==
  /\ op = "negated.negated"
  /\ a.amount > 0
  /\ result.value.amount = a.amount

\* C18: equals never fails; it answers true exactly when the minor amounts and
\* the currency codes are the same, and false (no error) for two currencies.
C18_EqualsNeverFails ==
  (op = "equals")
    => /\ result.ok
       /\ result.value = (a.amount = b.amount /\ a.currency.code = b.currency.code)

\* equals answered false for the same amount in two currencies.
C18_Witness ==
  /\ op = "equals"
  /\ a.amount = b.amount
  /\ a.currency.code = USD
  /\ b.currency.code = EUR
  /\ result.ok
  /\ result.value = FALSE

\* C19: for a and b of one currency, a.compareTo(b) is -1, 0 or 1 as a's minor
\* amount is below, equal to or above b's, and b.compareTo(a) is its negation.
C19_CompareToSign ==
  /\ (op = "compareTo" /\ a.currency.code = b.currency.code)
       => /\ result.ok
          /\ result.value = (IF a.amount < b.amount THEN -1
                             ELSE IF a.amount = b.amount THEN 0 ELSE 1)
  /\ (op = "compareTo.reversed" /\ a.currency.code = b.currency.code)
       => /\ result.ok
          /\ args.forward.ok
          /\ args.forward.value = -result.value

\* Both comparisons ran on an a smaller than b.
C19_Witness ==
  /\ op = "compareTo.reversed"
  /\ a.currency.code = b.currency.code
  /\ a.amount < b.amount
  /\ args.forward.value = -1
  /\ result.value = 1

(***************************************************************************)
(* multipliedBy and percentage (money.ts).                                 *)
(***************************************************************************)
\* multipliedBy as it would be if the product were rounded to the nearest
\* minor unit instead of truncated.
multipliedByRounded(this, factor) ==
  LET scale == this.currency.defaultFractionDigits
      factorBigInt == MathRound(factor.n * Pow10(scale), factor.d)
  IN  [amount |-> MathRound(this.amount * factorBigInt, Pow10(scale)),
       currency |-> this.currency]

\* multipliedBy(factor): amount * BigInt(round(factor * 10^scale)) / 10^scale,
\* a bigint division.
multipliedBy(this, factor) ==
  LET scale == getDefaultFractionDigits(this.currency)
      factorBigInt == toBigIntWithScale(factor, scale)
  IN  Money(BigIntDiv(this.amount * factorBigInt, Pow10(scale)), this.currency)

AS_DECIMAL == "AS_DECIMAL"
AS_PERCENTAGE == "AS_PERCENTAGE"

\* percentage(percentage, format): AS_PERCENTAGE divides by 100 first.
percentage(this, pct, format) ==
  multipliedBy(this, IF format = AS_PERCENTAGE THEN Num(pct.n, pct.d * 100) ELSE pct)

(***************************************************************************)
(* SpecMul: one Money, constructed from a decimal or multiplied.           *)
(***************************************************************************)
\* Denominators of the decimal inputs: for these the double product
\* value * 10^scale rounds as the exact product does.
Denominators == {1, 2, 8, 10, 16, 32, 100}

Decimals == { Num(n, d) : n \in (-MaxNumerator)..MaxNumerator, d \in Denominators }

InitUnary ==
  /\ registry = LoadedRegistry
  /\ a \in Moneys
  /\ b = a
  /\ op = "init"
  /\ args = NoArgs
  /\ result = NoResult

\* Money.of(value, currency)
MoneyOfOp ==
  \E value \in Decimals, c \in Loaded(registry) :
    /\ op = "init"
    /\ op' = "of"
    /\ args' = [value |-> value, currency |-> c]
    /\ result' = Ok(MoneyOf(value, c))
    /\ UNCHANGED <<registry, a, b>>

\* a.multipliedBy(factor)
MultipliedBy ==
  \E factor \in Decimals :
    /\ op = "init"
    /\ op' = "multipliedBy"
    /\ args' = [factor |-> factor]
    /\ result' = Ok(multipliedBy(a, factor))
    /\ UNCHANGED <<registry, a, b>>

\* a.percentage(p, format): a whole-number percentage, or the same percentage
\* written as the decimal fraction p/100.
Percentage ==
  \E p \in 0..MaxPercent, format \in {AS_DECIMAL, AS_PERCENTAGE} :
    /\ op = "init"
    /\ op' = "percentage"
    /\ args' = [p |-> p, format |-> format]
    /\ result' = Ok(percentage(a, IF format = AS_PERCENTAGE THEN Whole(p) ELSE Num(p, 100), format))
    /\ UNCHANGED <<registry, a, b>>

\* The README's shopping cart: three items, their subtotal, a 10% discount.
ReadmeCart ==
  LET usd == CurrencyOf(registry, USD).value
      item1 == MoneyOf(Num(2999, 100), usd)
      item2 == MoneyOf(Num(4999, 100), usd)
      item3 == MoneyOf(Num(1999, 100), usd)
      subtotal == plus(plus(item1, item2).value, item3).value
      discount == multipliedBy(subtotal, Num(1, 10))
  IN  /\ op = "init"
      /\ op' = "readmeCart"
      /\ args' = [subtotal |-> subtotal, discount |-> discount]
      /\ result' = minus(subtotal, discount)
      /\ UNCHANGED <<registry, a, b>>

NextMul ==
  \/ MoneyOfOp
  \/ MultipliedBy
  \/ Percentage
  \/ ReadmeCart

SpecMul == InitUnary /\ [][NextMul]_vars

\* The integer nearest to n/d, a tie going away from zero.
RoundHalfAwayFromZero(n, d) ==
  IF n >= 0 THEN (2 * n + d) \div (2 * d) ELSE -((2 * (-n) + d) \div (2 * d))

\* C6: Money.of(value, currency) holds value * 10^scale rounded to the nearest
\* integer, a tie going away from zero, for negative values as for positive.
C6_ConstructRoundsHalfAwayFromZero ==
  (op = "of")
    => result.value.amount =
         RoundHalfAwayFromZero(args.value.n * Pow10(args.currency.defaultFractionDigits),
                               args.value.d)

\* The scaled factor, stated without the code: the integer f nearest to
\* factor * 10^scale (a tie going up), one of the two integers around it.
ScaledFactor(factor, scale) ==
  LET below == (factor.n * Pow10(scale)) \div factor.d
  IN  CHOOSE f \in {below, below + 1} :
        /\ 2 * (f * factor.d - factor.n * Pow10(scale)) <= factor.d
        /\ 2 * (factor.n * Pow10(scale) - f * factor.d) < factor.d

\* C7: multipliedBy(factor) returns the quotient of amount * F by 10^scale
\* truncated toward zero, F being the factor scaled by 10^scale and rounded:
\* the result has the product's sign and its magnitude is the greatest
\* multiple of 10^scale not above the product's.
C7_MultipliedByTruncates ==
  (op = "multipliedBy")
    => LET scale == a.currency.defaultFractionDigits
           product == a.amount * ScaledFactor(args.factor, scale)
           q == result.value.amount
       IN  /\ result.value.currency = a.currency
           /\ q * product >= 0
           /\ Abs(q) * Pow10(scale) <= Abs(product)
           /\ Abs(product) < (Abs(q) + 1) * Pow10(scale)

\* C7 witness: a product whose fraction is above one half, where rounding to
\* nearest would give a larger magnitude: -7 * 0.25 = -1.75 gives -1.
C7_Witness ==
  /\ op = "multipliedBy"
  /\ a.amount = -7
  /\ a.currency.code = USD
  /\ args.factor = Num(2, 8)
  /\ result.value.amount = -1

\* C8: in the README's cart the subtotal is USD 99.97 and the subtotal minus
\* its 10% discount is USD 89.97.
C8_ReadmeCartTotal ==
  (op = "readmeCart")
    => /\ args.subtotal.amount = 9997
       /\ result.ok
       /\ result.value.amount = 8997

\* C9: a whole-number percentage p of 0..100 gives p percent of the amount to
\* within one minor unit, at every scale, and the same as percentage(p/100).
C9_PercentageOfAmount ==
  (op = "percentage" /\ args.format = AS_PERCENTAGE /\ args.p <= 100)
    => /\ Abs(result.value.amount * 100 - a.amount * args.p) <= 100
       /\ result.value = percentage(a, Num(args.p, 100), AS_DECIMAL)

(***************************************************************************)
(* dividedBy and roundDiv (money.ts).                                      *)
(***************************************************************************)
UP == "UP"
DOWN == "DOWN"
CEILING == "CEILING"
FLOOR == "FLOOR"
HALF_UP == "HALF_UP"
HALF_DOWN == "HALF_DOWN"
HALF_EVEN == "HALF_EVEN"
RoundingMode == {UP, DOWN, CEILING, FLOOR, HALF_UP, HALF_DOWN, HALF_EVEN}

\* roundDiv without the early return on a zero remainder.
roundDivNoExactReturn(dividend, divisor, roundingMode) ==
  IF divisor = 0 THEN Throw(DivisionByZero)
  ELSE
    LET quotient == BigIntDiv(dividend, divisor)
        remainder == BigIntRem(dividend, divisor)
        halfDivisor == BigIntDiv(divisor, 2)
    IN  Ok(CASE roundingMode = UP -> quotient + 1
             [] roundingMode = DOWN -> quotient
             [] roundingMode = CEILING ->
                  IF dividend > 0 THEN quotient + 1 ELSE quotient
             [] roundingMode = FLOOR ->
                  IF dividend < 0 THEN quotient - 1 ELSE quotient
             [] roundingMode = HALF_UP ->
                  IF remainder >= halfDivisor THEN quotient + 1 ELSE quotient
             [] roundingMode = HALF_DOWN ->
                  IF remainder > halfDivisor THEN quotient + 1 ELSE quotient
             [] roundingMode = HALF_EVEN ->
                  IF \/ remainder > halfDivisor
                     \/ (remainder = halfDivisor /\ BigIntRem(quotient, 2) # 0)
                  THEN quotient + 1 ELSE quotient)

\* roundDiv answering 0 for a zero dividend before it divides.
roundDivZeroDividend(dividend, divisor, roundingMode) ==
  IF dividend = 0 THEN Ok(0)
  ELSE IF divisor = 0 THEN Throw(DivisionByZero)
  ELSE
    LET quotient == BigIntDiv(dividend, divisor)
        remainder == BigIntRem(dividend, divisor)
        halfDivisor == BigIntDiv(divisor, 2)
    IN  IF remainder = 0 THEN Ok(quotient)
        ELSE Ok(CASE roundingMode = UP -> quotient + 1
                  [] roundingMode = DOWN -> quotient
                  [] roundingMode = CEILING ->
                       IF dividend > 0 THEN quotient + 1 ELSE quotient
                  [] roundingMode = FLOOR ->
                       IF dividend < 0 THEN quotient - 1 ELSE quotient
                  [] roundingMode = HALF_UP ->
                       IF remainder >= halfDivisor THEN quotient + 1 ELSE quotient
                  [] roundingMode = HALF_DOWN ->
                       IF remainder > halfDivisor THEN quotient + 1 ELSE quotient
                  [] roundingMode = HALF_EVEN ->
                       IF \/ remainder > halfDivisor
                          \/ (remainder = halfDivisor /\ BigIntRem(quotient, 2) # 0)
                       THEN quotient + 1 ELSE quotient)

\* roundDiv(dividend, divisor, roundingMode): the bigint division throws on a
\* zero divisor; otherwise the truncated quotient, adjusted by the mode when
\* the remainder is not zero.
roundDiv(dividend, divisor, roundingMode) ==
  IF divisor = 0 THEN Throw(DivisionByZero)
  ELSE
    LET quotient == BigIntDiv(dividend, divisor)
        remainder == BigIntRem(dividend, divisor)
        halfDivisor == BigIntDiv(divisor, 2)
    IN  IF remainder = 0 THEN Ok(quotient)
        ELSE Ok(CASE roundingMode = UP -> quotient + 1
                  [] roundingMode = DOWN -> quotient
                  [] roundingMode = CEILING ->
                       IF dividend > 0 THEN quotient + 1 ELSE quotient
                  [] roundingMode = FLOOR ->
                       IF dividend < 0 THEN quotient - 1 ELSE quotient
                  [] roundingMode = HALF_UP ->
                       IF remainder >= halfDivisor THEN quotient + 1 ELSE quotient
                  [] roundingMode = HALF_DOWN ->
                       IF remainder > halfDivisor THEN quotient + 1 ELSE quotient
                  [] roundingMode = HALF_EVEN ->
                       IF \/ remainder > halfDivisor
                          \/ (remainder = halfDivisor /\ BigIntRem(quotient, 2) # 0)
                       THEN quotient + 1 ELSE quotient)

\* dividedBy(divisor, roundingMode): the amount scaled up by 10^scale is
\* divided by the divisor scaled to an integer.
dividedBy(this, divisor, roundingMode) ==
  LET scale == getDefaultFractionDigits(this.currency)
      divisorBigInt == toBigIntWithScale(divisor, scale)
      res == roundDiv(this.amount * Pow10(scale), divisorBigInt, roundingMode)
  IN  IF res.ok THEN Ok(Money(res.value, this.currency)) ELSE res

(***************************************************************************)
(* SpecDiv: one Money divided by a number under a rounding mode.           *)
(***************************************************************************)
Divisors == { Num(n, d) : n \in (-MaxDivisor)..MaxDivisor, d \in {1, 2, 100} }

\* a.dividedBy(divisor, roundingMode)
DividedBy ==
  \E divisor \in Divisors, roundingMode \in RoundingMode :
    /\ op = "init"
    /\ op' = "dividedBy"
    /\ args' = [divisor |-> divisor, roundingMode |-> roundingMode]
    /\ result' = dividedBy(a, divisor, roundingMode)
    /\ UNCHANGED <<registry, a, b>>

\* a.negated().dividedBy(divisor, roundingMode), called after
\* a.dividedBy(divisor, roundingMode), whose result is kept.
NegatedDividedBy ==
  /\ op = "dividedBy"
  /\ op' = "negated.dividedBy"
  /\ args' = [divisor |-> args.divisor, roundingMode |-> args.roundingMode,
              forward |-> result]
  /\ result' = dividedBy(negated(a), args.divisor, args.roundingMode)
  /\ UNCHANGED <<registry, a, b>>

NextDiv ==
  \/ DividedBy
  \/ NegatedDividedBy

SpecDiv == InitUnary /\ [][NextDiv]_vars

\* The operands roundDiv receives in the call the state records.
ScaledDividend == a.amount * Pow10(a.currency.defaultFractionDigits)
ScaledDivisor == toBigIntWithScale(args.divisor, a.currency.defaultFractionDigits)

\* q is the greatest integer not above n/d (d # 0).
IsFloorOf(q, n, d) ==
  IF d > 0 THEN q * d <= n /\ n < (q + 1) * d
  ELSE q * d >= n /\ n > (q + 1) * d

\* q is the least integer not below n/d (d # 0).
IsCeilingOf(q, n, d) ==
  IF d > 0 THEN (q - 1) * d < n /\ n <= q * d
  ELSE (q - 1) * d > n /\ n >= q * d

\* C10: for every dividend and every non-zero divisor of either sign, FLOOR
\* gives the greatest integer not above the exact quotient and CEILING the
\* least integer not below it.
C10_FloorAndCeiling ==
  (op = "dividedBy" /\ result.ok)
    => /\ (args.roundingMode = FLOOR
            => IsFloorOf(result.value.amount, ScaledDividend, ScaledDivisor))
       /\ (args.roundingMode = CEILING
            => IsCeilingOf(result.value.amount, ScaledDividend, ScaledDivisor))

\* The call the state records divided a positive dividend by a positive
\* scaled divisor under the given mode.
PositiveDivision(mode) ==
  /\ op = "dividedBy"
  /\ args.roundingMode = mode
  /\ ScaledDividend > 0
  /\ ScaledDivisor > 0

\* C11: for a positive dividend and a positive scaled divisor d, even or odd,
\* HALF_UP returns q + 1 exactly when the remainder r has 2r >= d, and q
\* otherwise.
C11_HalfUpNearest ==
  PositiveDivision(HALF_UP)
    => LET q == ScaledDividend \div ScaledDivisor
           r == ScaledDividend % ScaledDivisor
       IN  /\ result.ok
           /\ result.value.amount = IF 2 * r >= ScaledDivisor THEN q + 1 ELSE q

\* C12: for a positive dividend and a positive scaled divisor d, HALF_EVEN
\* returns the integer nearest to the exact quotient, and the even neighbour
\* only when the quotient is exactly halfway (2r = d).
C12_HalfEvenNearest ==
  PositiveDivision(HALF_EVEN)
    => LET q == ScaledDividend \div ScaledDivisor
           r == ScaledDividend % ScaledDivisor
       IN  /\ result.ok
           /\ result.value.amount =
                IF 2 * r > ScaledDivisor THEN q + 1
                ELSE IF 2 * r < ScaledDivisor THEN q
                ELSE IF q % 2 = 0 THEN q ELSE q + 1

\* The scaled dividend is a whole multiple of the (non-zero) scaled divisor.
ExactDivision == Abs(ScaledDividend) % Abs(ScaledDivisor) = 0

\* C13: under UP with a non-zero remainder the magnitude of the result is
\* strictly greater than the magnitude of the exact quotient, for operands of
\* either sign.
C13_UpAwayFromZero ==
  (op = "dividedBy" /\ args.roundingMode = UP
     /\ ScaledDivisor # 0 /\ ~ExactDivision)
    => /\ result.ok
       /\ Abs(result.value.amount) * Abs(ScaledDivisor) > Abs(ScaledDividend)

\* C14: when the scaled dividend is an exact multiple of the scaled divisor,
\* every rounding mode returns the exact quotient, for operands of either
\* sign.
C14_ExactDivision ==
  (op = "dividedBy" /\ ScaledDivisor # 0 /\ ExactDivision)
    => /\ result.ok
       /\ result.value.amount * ScaledDivisor = ScaledDividend
       /\ result.value.currency = a.currency

\* An exact division of a negative amount by a negative divisor under UP.
C14_Witness ==
  /\ op = "dividedBy"
  /\ args.roundingMode = UP
  /\ a.amount = -12
  /\ ScaledDivisor = -300
  /\ result.ok
  /\ result.value.amount = 4

\* C15: whenever the divisor scaled by 10^scale and rounded is zero,
\* dividedBy fails with the division-by-zero error and returns no Money, for
\* every amount (zero included) and every rounding mode.
C15_DivisionByZero ==
  (op = "dividedBy" /\ ScaledDivisor = 0)
    => /\ ~result.ok
       /\ result.error = DivisionByZero

\* The amount zero divided by a non-zero divisor too small for the scale.
C15_Witness ==
  /\ op = "dividedBy"
  /\ a.amount = 0
  /\ args.divisor.n # 0
  /\ ScaledDivisor = 0
  /\ ~result.ok

\* The modes meant to treat the two signs alike.
SignSymmetricModes == {UP, DOWN, HALF_UP, HALF_DOWN, HALF_EVEN}

\* C28: under UP, DOWN, HALF_UP, HALF_DOWN and HALF_EVEN, for every amount a
\* and positive divisor d, a.negated().dividedBy(d, m) has the minor amount of
\* a.dividedBy(d, m).negated().
C28_DivisionSignSymmetry ==
  (op = "negated.dividedBy" /\ args.roundingMode \in SignSymmetricModes
     /\ ScaledDivisor > 0)
    => /\ result.ok
       /\ args.forward.ok
       /\ result.value.amount = -args.forward.value.amount

(***************************************************************************)
(* allocate and split (money.ts).                                          *)
(***************************************************************************)
\* The sum of two numbers.
NumAdd(x, y) == Num(x.n * y.d + y.n * x.d, x.d * y.d)

\* ratios.reduce((sum, ratio) => sum + ratio, 0)
RECURSIVE SumRatios(_)
SumRatios(ratios) ==
  IF ratios = << >> THEN Whole(0)
  ELSE NumAdd(SumRatios(SubSeq(ratios, 1, Len(ratios) - 1)), ratios[Len(ratios)])

\* shares.reduce((sum, share) => sum.plus(share), Money.zero(this.currency))
RECURSIVE SumShares(_, _)
SumShares(shares, currency) ==
  IF shares = << >> THEN MoneyZero(currency)
  ELSE plus(SumShares(SubSeq(shares, 1, Len(shares) - 1), currency),
            shares[Len(shares)]).value

\* The remainder loop as it would be if it started at the last share.
RECURSIVE DistributeRemainderFromLast(_, _, _)
DistributeRemainderFromLast(shares, remainder, i) ==
  IF isZero(remainder) THEN Ok(shares)
  ELSE IF i >= Len(shares) THEN Throw(UndefinedShare)
  ELSE DistributeRemainderFromLast(
         [shares EXCEPT ![Len(shares) - i] = plus(@, MoneyOfMinor(1, remainder.currency)).value],
         minus(remainder, MoneyOfMinor(1, remainder.currency)).value,
         i + 1)

\* The loop that hands out the remainder: while the remainder is not zero,
\* shares[i] gains one minor unit and the remainder loses one; reading
\* shares[i] past the end of the array gives undefined, and calling plus on it
\* throws a TypeError.  i counts from 0 as in the code.
RECURSIVE DistributeRemainder(_, _, _)
DistributeRemainder(shares, remainder, i) ==
  IF isZero(remainder) THEN Ok(shares)
  ELSE IF i >= Len(shares) THEN Throw(UndefinedShare)
  ELSE DistributeRemainder(
         [shares EXCEPT ![i + 1] = plus(@, MoneyOfMinor(1, remainder.currency)).value],
         minus(remainder, MoneyOfMinor(1, remainder.currency)).value,
         i + 1)

\* allocate without the check for a zero ratio.
allocateZeroAllowed(this, ratios) ==
  IF Len(ratios) = 0 THEN Throw(EmptyRatios)
  ELSE IF \E i \in 1..Len(ratios) : ratios[i].n < 0 THEN Throw(NegativeRatios)
  ELSE
    LET total == SumRatios(ratios)
        shareResults == [i \in 1..Len(ratios) |->
                           dividedBy(multipliedBy(this, ratios[i]), total, DOWN)]
    IN  IF total.n = 0 THEN Throw(ZeroRatios)
        ELSE IF \E i \in 1..Len(ratios) : ~shareResults[i].ok THEN Throw(DivisionByZero)
        ELSE
          LET shares == [i \in 1..Len(ratios) |-> shareResults[i].value]
              remainder == minus(this, SumShares(shares, this.currency)).value
          IN  DistributeRemainder(shares, remainder, 0)

\* allocate as it would be if it returned the shares in the opposite order.
allocateReversed(this, ratios) ==
  IF Len(ratios) = 0 THEN Throw(EmptyRatios)
  ELSE IF \E i \in 1..Len(ratios) : ratios[i].n < 0 THEN Throw(NegativeRatios)
  ELSE IF \E i \in 1..Len(ratios) : ratios[i].n = 0 THEN Throw(ZeroRatios)
  ELSE
    LET total == SumRatios(ratios)
        shareResults == [i \in 1..Len(ratios) |->
                           dividedBy(multipliedBy(this, ratios[i]), total, DOWN)]
    IN  IF total.n = 0 THEN Throw(ZeroRatios)
        ELSE IF \E i \in 1..Len(ratios) : ~shareResults[i].ok THEN Throw(DivisionByZero)
        ELSE
          LET shares == [i \in 1..Len(ratios) |-> shareResults[Len(ratios) + 1 - i].value]
              remainder == minus(this, SumShares(shares, this.currency)).value
          IN  DistributeRemainder(shares, remainder, 0)

\* allocate(...ratios)
allocate(this, ratios) ==
  IF Len(ratios) = 0 THEN Throw(EmptyRatios)
  ELSE IF \E i \in 1..Len(ratios) : ratios[i].n < 0 THEN Throw(NegativeRatios)
  ELSE IF \E i \in 1..Len(ratios) : ratios[i].n = 0 THEN Throw(ZeroRatios)
  ELSE
    LET total == SumRatios(ratios)
        shareResults == [i \in 1..Len(ratios) |->
                           dividedBy(multipliedBy(this, ratios[i]), total, DOWN)]
    IN  IF total.n = 0 THEN Throw(ZeroRatios)
        ELSE IF \E i \in 1..Len(ratios) : ~shareResults[i].ok THEN Throw(DivisionByZero)
        ELSE
          LET shares == [i \in 1..Len(ratios) |-> shareResults[i].value]
              remainder == minus(this, SumShares(shares, this.currency)).value
          IN  DistributeRemainder(shares, remainder, 0)

\* split(parts): Array(parts).fill(1) throws a RangeError for a negative
\* length; otherwise the parts ones are the ratios.
split(this, parts) ==
  IF parts < 0 THEN Throw(InvalidArrayLength)
  ELSE allocate(this, [i \in 1..parts |-> Whole(1)])

(***************************************************************************)
(* SpecAlloc: one Money allocated by a list of ratios, or split.           *)
(***************************************************************************)
AllocMoneys ==
  { MoneyOfMinor(n, c) : n \in (-MaxAllocAmount)..MaxAllocAmount, c \in Loaded(LoadedRegistry) }
    \cup { MoneyOf(Whole(100), CurrencyOf(LoadedRegistry, USD).value) }

\* The ratios: whole numbers from 0, and a negative and two fractional ones.
RatioValues == { Whole(n) : n \in 0..MaxRatio } \cup { Whole(-1), Num(1, 2), Num(3, 2) }

RatioLists == UNION { [1..n -> RatioValues] : n \in 0..MaxRatios }

InitAlloc ==
  /\ registry = LoadedRegistry
  /\ a \in AllocMoneys
  /\ b = a
  /\ op = "init"
  /\ args = NoArgs
  /\ result = NoResult

\* a.allocate(...ratios)
Allocate ==
  \E ratios \in RatioLists :
    /\ op = "init"
    /\ op' = "allocate"
    /\ args' = [ratios |-> ratios]
    /\ result' = allocate(a, ratios)
    /\ UNCHANGED <<registry, a, b>>

\* a.split(parts)
Split ==
  \E parts \in (-1)..MaxParts :
    /\ op = "init"
    /\ op' = "split"
    /\ args' = [parts |-> parts]
    /\ result' = split(a, parts)
    /\ UNCHANGED <<registry, a, b>>

NextAlloc ==
  \/ Allocate
  \/ Split

SpecAlloc == InitAlloc /\ [][NextAlloc]_vars

\* The sum of the minor amounts of a list of Money values.
RECURSIVE SumAmounts(_)
SumAmounts(list) ==
  IF list = << >> THEN 0 ELSE list[1].amount + SumAmounts(Tail(list))

\* A ratio list that passes allocate's validation: not empty, every ratio
\* above zero.
ValidRatios(ratios) ==
  Len(ratios) > 0 /\ \A i \in 1..Len(ratios) : ratios[i].n > 0

\* C1: for every Money (amount of either sign) and every valid ratio list,
\* allocate returns as many shares as ratios and their minor amounts sum to
\* the receiver's.
C1_AllocateConservesAmount ==
  (op = "allocate" /\ ValidRatios(args.ratios))
    => /\ result.ok
       /\ Len(result.value) = Len(args.ratios)
       /\ SumAmounts(result.value) = a.amount

\* C2: for every Money and every positive integer n, split(n) returns n parts
\* whose minor amounts sum to the receiver's.
C2_SplitConservesAmount ==
  (op = "split" /\ args.parts > 0)
    => /\ result.ok
       /\ Len(result.value) = args.parts
       /\ SumAmounts(result.value) = a.amount

\* The errors allocate's validation of the ratios raises.
InvalidRatios == {EmptyRatios, NegativeRatios, ZeroRatios}

\* C16: allocate with an empty ratio list, a negative ratio or a zero ratio
\* (which covers a zero sum) fails with the invalid-ratios error, returns no
\* shares and leaves the receiver as it was.
C16_AllocateRejectsInvalidRatios ==
  [][(op' = "allocate" /\ ~ValidRatios(args'.ratios))
       => /\ ~result'.ok
          /\ result'.error \in InvalidRatios
          /\ a' = a]_vars

\* A list whose only flaw is a zero ratio was rejected.
C16_Witness ==
  /\ op = "allocate"
  /\ args.ratios = << Whole(1), Whole(0) >>
  /\ a.amount # 0
  /\ ~result.ok
  /\ result.error = ZeroRatios

\* C17: split(n) with n <= 0, zero and negative alike, fails with the
\* invalid-ratios error of allocate's validation.
C17_SplitRejectsNonPositive ==
  (op = "split" /\ args.parts <= 0)
    => /\ ~result.ok
       /\ result.error \in InvalidRatios

\* Every ratio of the list is a positive whole number.
PositiveWholeRatios(ratios) ==
  Len(ratios) > 0 /\ \A i \in 1..Len(ratios) : ratios[i].d = 1 /\ ratios[i].n > 0

\* The sum of a list of integers.
RECURSIVE SumInts(_)
SumInts(list) == IF list = << >> THEN 0 ELSE list[1] + SumInts(Tail(list))

\* The total T of whole ratios.
RatioTotal(ratios) == SumInts([i \in 1..Len(ratios) |-> ratios[i].n])

\* C25: for a non-negative amount and positive whole ratios of total T, share
\* i (from 0) is floor(a * r_i / T), plus one minor unit exactly when i is
\* below the leftover a - SUM_j floor(a * r_j / T).
C25_RemainderGoesToPrefix ==
  (op = "allocate" /\ a.amount >= 0 /\ PositiveWholeRatios(args.ratios))
    => LET floors == [i \in 1..Len(args.ratios) |->
                        (a.amount * args.ratios[i].n) \div RatioTotal(args.ratios)]
           leftover == a.amount - SumInts(floors)
       IN  /\ result.ok
           /\ Len(result.value) = Len(args.ratios)
           /\ \A i \in 1..Len(args.ratios) :
                result.value[i].amount = floors[i] + (IF i - 1 < leftover THEN 1 ELSE 0)

\* Three equal ratios left two minor units over, which went to the first two
\* shares.
C25_Witness ==
  /\ op = "allocate"
  /\ a.amount = 5
  /\ args.ratios = << Whole(1), Whole(1), Whole(1) >>
  /\ result.ok
  /\ result.value[1].amount = 2
  /\ result.value[2].amount = 2
  /\ result.value[3].amount = 1

\* C27: for an amount of either sign and n positive whole ratios, the leftover
\* after truncating the shares lies in 0..n-1, and allocate returns normally.
C27_LeftoverInRange ==
  (op = "allocate" /\ PositiveWholeRatios(args.ratios))
    => LET truncated == [i \in 1..Len(args.ratios) |->
                           BigIntDiv(a.amount * args.ratios[i].n, RatioTotal(args.ratios))]
           leftover == a.amount - SumInts(truncated)
       IN  /\ leftover \in 0..(Len(args.ratios) - 1)
           /\ result.ok

(***************************************************************************)
(* serializeObject and deserializeObject (money.ts).                       *)
(*                                                                         *)
(* A JavaScript value is a tagged node: a Money, a string, a number, a     *)
(* boolean, an array of nodes, or a plain object (its fields in insertion  *)
(* order).  The JSON text that JSON.stringify writes and JSON.parse reads  *)
(* is modelled by the document it denotes: a node without Money leaves.    *)
(***************************************************************************)
MoneyNode(m) == [t |-> "money", money |-> m]
Str(chars) == [t |-> "str", chars |-> chars]
NumNode(n) == [t |-> "num", num |-> n]
Bool(v) == [t |-> "bool", bool |-> v]
Arr(items) == [t |-> "arr", items |-> items]
Obj(fields) == [t |-> "obj", fields |-> fields]
Field(key, value) == [key |-> key, value |-> value]
Thrown(e) == [t |-> "throw", error |-> e]

DigitChars == << "0", "1", "2", "3", "4", "5", "6", "7", "8", "9" >>

\* bigint.toString(): the decimal digits, after a minus sign when negative.
RECURSIVE DigitsOf(_)
DigitsOf(n) ==
  IF n < 10 THEN << DigitChars[n + 1] >>
  ELSE Append(DigitsOf(n \div 10), DigitChars[(n % 10) + 1])

BigIntToString(n) == IF n < 0 THEN << "-" >> \o DigitsOf(-n) ELSE DigitsOf(n)

IsDigit(c) == \E i \in DOMAIN DigitChars : DigitChars[i] = c
DigitValue(c) == (CHOOSE i \in DOMAIN DigitChars : DigitChars[i] = c) - 1

RECURSIVE ParseDigits(_)
ParseDigits(chars) ==
  IF chars = << >> THEN 0
  ELSE ParseDigits(SubSeq(chars, 1, Len(chars) - 1)) * 10 + DigitValue(chars[Len(chars)])

\* BigInt(string): an optional sign and decimal digits (the empty string is
\* 0n); anything else throws a SyntaxError.
BigIntOfString(chars) ==
  LET signed == Len(chars) > 1 /\ chars[1] \in {"-", "+"}
      digits == IF signed THEN Tail(chars) ELSE chars
  IN  IF \A i \in DOMAIN digits : IsDigit(digits[i])
      THEN Ok(IF signed /\ chars[1] = "-" THEN -ParseDigits(digits) ELSE ParseDigits(digits))
      ELSE Throw(BigIntSyntaxError)

AmountKey == << "a", "m", "o", "u", "n", "t" >>
CurrencyKey == << "c", "u", "r", "r", "e", "n", "c", "y" >>
MoneyFlagKey == << "_", "_", "m", "o", "n", "e", "y" >>

HasField(fields, key) == \E i \in DOMAIN fields : fields[i].key = key
\* obj[key]: the last field of that name.
FieldValue(fields, key) ==
  fields[CHOOSE i \in DOMAIN fields :
           /\ fields[i].key = key
           /\ \A j \in (i + 1)..Len(fields) : fields[j].key # key].value

\* JSON.stringify(obj, replacer): a Money becomes the object
\* { amount: amount.toString(), currency, __money: true }, whose currency is
\* written through Currency.toJSON; every other value is walked as it is.
RECURSIVE serializeObject(_)
serializeObject(obj) ==
  CASE obj.t = "money" ->
         Obj(<< Field(AmountKey, Str(BigIntToString(obj.money.amount))),
                Field(CurrencyKey, Str(CurrencyToJSON(obj.money.currency))),
                Field(MoneyFlagKey, Bool(TRUE)) >>)
    [] obj.t = "arr" -> Arr([i \in DOMAIN obj.items |-> serializeObject(obj.items[i])])
    [] obj.t = "obj" ->
         Obj([i \in DOMAIN obj.fields |->
                Field(obj.fields[i].key, serializeObject(obj.fields[i].value))])
    [] OTHER -> obj

\* The reviver's Money.ofMinor(BigInt(value.amount), Currency.of(value.currency)):
\* the arguments are evaluated left to right, and either may throw.
ReviveMoney(currencies, fields) ==
  LET amount ==
        IF ~HasField(fields, AmountKey) THEN Throw(BigIntTypeError)
        ELSE LET v == FieldValue(fields, AmountKey)
             IN  CASE v.t = "str" -> BigIntOfString(v.chars)
                   [] v.t = "num" -> Ok(v.num)
                   [] v.t = "bool" -> Ok(IF v.bool THEN 1 ELSE 0)
                   [] OTHER -> Throw(BigIntSyntaxError)
      currency ==
        IF ~HasField(fields, CurrencyKey) THEN Throw(UndefinedCode)
        ELSE LET v == FieldValue(fields, CurrencyKey)
             IN  CASE v.t = "str" -> CurrencyOf(currencies, v.chars)
                   [] v.t = "num" -> CurrencyOfNumeric(currencies, v.num)
                   [] OTHER -> Throw(UndefinedCode)
  IN  IF ~amount.ok THEN Thrown(amount.error)
      ELSE IF ~currency.ok THEN Thrown(currency.error)
      ELSE MoneyNode(MoneyOfMinor(amount.value, currency.value))

\* The first thrown error among the nodes of a sequence, if any.
FirstThrown(nodes) ==
  nodes[CHOOSE i \in DOMAIN nodes :
          nodes[i].t = "throw" /\ \A j \in 1..(i - 1) : nodes[j].t # "throw"]

\* JSON.parse(json, reviver): the document is rebuilt bottom-up; an object
\* whose __money is true is replaced by the Money it describes.
RECURSIVE Revive(_, _)
Revive(currencies, json) ==
  CASE json.t = "arr" ->
         LET items == [i \in DOMAIN json.items |-> Revive(currencies, json.items[i])]
         IN  IF \E i \in DOMAIN items : items[i].t = "throw" THEN FirstThrown(items)
             ELSE Arr(items)
    [] json.t = "obj" ->
         LET values == [i \in DOMAIN json.fields |-> Revive(currencies, json.fields[i].value)]
             fields == [i \in DOMAIN json.fields |-> Field(json.fields[i].key, values[i])]
         IN  IF \E i \in DOMAIN values : values[i].t = "throw" THEN FirstThrown(values)
             ELSE IF /\ HasField(fields, MoneyFlagKey)
                     /\ FieldValue(fields, MoneyFlagKey).t = "bool"
                     /\ FieldValue(fields, MoneyFlagKey).bool
                  THEN ReviveMoney(currencies, fields)
             ELSE Obj(fields)
    [] OTHER -> json

deserializeObject(currencies, json) ==
  LET value == Revive(currencies, json)
  IN  IF value.t = "throw" THEN Throw(value.error) ELSE Ok(value)

(***************************************************************************)
(* SpecSerial: a value holding two Money values is serialized, and the     *)
(* text is deserialized.                                                   *)
(***************************************************************************)
\* A load in which one code is not written in upper case.
MixedCaseData ==
  << CurrencyEntry(USD, 840, 2), CurrencyEntry(<< "e", "u", "r" >>, 978, 2),
     CurrencyEntry(JPY, 392, 0) >>

MixedCaseRegistry == loadIsoCurrencies(EmptyMap, MixedCaseData)

\* The Currency objects a caller can obtain: Currency.of(numericCode).
Obtainable(currencies) ==
  { CurrencyOfNumeric(currencies, currencies[i].value.numericCode).value :
      i \in DOMAIN currencies }

SerialAmounts == ((-MaxSerialAmount)..MaxSerialAmount) \cup {1050, 999999999}

SerialMoneys(currencies) ==
  { MoneyOfMinor(n, c) : n \in SerialAmounts, c \in Obtainable(currencies) }

PlainLeaves == { Str(<< "W", "i", "d", "g", "e", "t" >>), NumNode(3), Bool(FALSE) }

NameKey == << "n", "a", "m", "e" >>
PriceKey == << "p", "r", "i", "c", "e" >>
ItemsKey == << "i", "t", "e", "m", "s" >>
TotalKey == << "t", "o", "t", "a", "l" >>

\* A plain object of the caller's, not a Money, that carries the fields amount,
\* currency and __money.
FlaggedObject ==
  Obj(<< Field(AmountKey, Str(<< "5" >>)), Field(CurrencyKey, Str(USD)),
         Field(MoneyFlagKey, Bool(TRUE)) >>)

Shapes == {"money", "array", "object", "cart", "nested", "flagged"}

\* The value of each shape, holding the Money values m1 and m2 and the plain
\* value p: a bare Money, an array, an object, the README's cart, and arrays
\* in arrays.
Build(shape, m1, m2, p) ==
  CASE shape = "money" -> MoneyNode(m1)
    [] shape = "array" -> Arr(<< MoneyNode(m1), p, MoneyNode(m2) >>)
    [] shape = "object" -> Obj(<< Field(PriceKey, MoneyNode(m1)), Field(NameKey, p) >>)
    [] shape = "cart" ->
         Obj(<< Field(ItemsKey,
                      Arr(<< Obj(<< Field(NameKey, p), Field(PriceKey, MoneyNode(m1)) >>),
                             Obj(<< Field(NameKey, p), Field(PriceKey, MoneyNode(m2)) >>) >>)),
                Field(TotalKey, MoneyNode(m2)) >>)
    [] shape = "nested" ->
         Arr(<< Arr(<< MoneyNode(m1) >>), Arr(<< Arr(<< p, MoneyNode(m2) >>) >>) >>)
    [] shape = "flagged" ->
         Obj(<< Field(NameKey, p), Field(PriceKey, MoneyNode(m1)),
                Field(TotalKey, FlaggedObject) >>)

InitSerial ==
  /\ registry \in {LoadedRegistry, MixedCaseRegistry}
  /\ a \in SerialMoneys(registry)
  /\ b \in SerialMoneys(registry)
  /\ op = "init"
  /\ args = NoArgs
  /\ result = NoResult

\* Money.serializeObject(obj)
SerializeObject ==
  \E shape \in Shapes, p \in PlainLeaves :
    /\ op = "init"
    /\ op' = "serializeObject"
    /\ args' = [obj |-> Build(shape, a, b, p)]
    /\ result' = Ok(serializeObject(Build(shape, a, b, p)))
    /\ UNCHANGED <<registry, a, b>>

\* Money.deserializeObject(json) of the text serializeObject returned.
DeserializeObject ==
  /\ op = "serializeObject"
  /\ op' = "deserializeObject"
  /\ args' = [obj |-> args.obj, json |-> result.value]
  /\ result' = deserializeObject(registry, result.value)
  /\ UNCHANGED <<registry, a, b>>

NextSerial ==
  \/ SerializeObject
  \/ DeserializeObject

SpecSerial == InitSerial /\ [][NextSerial]_vars

\* y has, at every place where x holds a Money, a Money of the same minor
\* amount and the same currency code, inside the same arrays and objects.
RECURSIVE SameMoneys(_, _)
SameMoneys(x, y) ==
  CASE x.t = "money" ->
         /\ y.t = "money"
         /\ y.money.amount = x.money.amount
         /\ y.money.currency.code = x.money.currency.code
    [] x.t = "arr" ->
         /\ y.t = "arr"
         /\ Len(y.items) = Len(x.items)
         /\ \A i \in DOMAIN x.items : SameMoneys(x.items[i], y.items[i])
    [] x.t = "obj" ->
         /\ y.t = "obj"
         /\ Len(y.fields) = Len(x.fields)
         /\ \A i \in DOMAIN x.fields :
              /\ y.fields[i].key = x.fields[i].key
              /\ SameMoneys(x.fields[i].value, y.fields[i].value)
    [] OTHER -> TRUE

\* C5: deserializeObject(serializeObject(x)) returns a value that holds, for
\* every Money of x at any depth, a Money of the same minor amount and the
\* same currency code.
C5_SerializeRoundTrip ==
  (op = "deserializeObject")
    => /\ result.ok
       /\ SameMoneys(args.obj, result.value)

\* y has every value of x that is not a Money unchanged and at the same
\* place, and a Money only where x has one.
RECURSIVE SamePlainValues(_, _)
SamePlainValues(x, y) ==
  CASE x.t = "money" -> y.t = "money"
    [] x.t = "arr" ->
         /\ y.t = "arr"
         /\ Len(y.items) = Len(x.items)
         /\ \A i \in DOMAIN x.items : SamePlainValues(x.items[i], y.items[i])
    [] x.t = "obj" ->
         /\ y.t = "obj"
         /\ Len(y.fields) = Len(x.fields)
         /\ \A i \in DOMAIN x.fields :
              /\ y.fields[i].key = x.fields[i].key
              /\ SamePlainValues(x.fields[i].value, y.fields[i].value)
    [] OTHER -> y.t = x.t /\ y = x

\* C30: with every currency code loaded in upper case,
\* deserializeObject(serializeObject(x)) returns every value of x that is not
\* a Money (strings, numbers, booleans, objects and arrays, whatever fields
\* they carry) unchanged and in place; only Money values come back as Money.
C30_PlainValuesRoundTrip ==
  (op = "deserializeObject" /\ registry = LoadedRegistry)
    => /\ result.ok
       /\ SamePlainValues(args.obj, result.value)

(***************************************************************************)
(* getAmount: the decimal string of a Money (money.ts).                    *)
(***************************************************************************)
HasPointIn(chars) == \E i \in DOMAIN chars : chars[i] = "."

\* string.padStart(targetLength, '0')
RECURSIVE padStart(_, _)
padStart(chars, targetLength) ==
  IF Len(chars) >= targetLength THEN chars
  ELSE padStart(<< "0" >> \o chars, targetLength)

\* getAmount() of src/money.ts: the fractional part is written as the bigint
\* remainder is, sign included.
getAmount(this) ==
  LET digits == getDefaultFractionDigits(this.currency)
      scaleFactor == Pow10(digits)
      integerPart == BigIntDiv(this.amount, scaleFactor)
      fractionalPart == BigIntRem(this.amount, scaleFactor)
  IN  IF digits = 0 THEN BigIntToString(integerPart)
      ELSE BigIntToString(integerPart) \o << "." >>
             \o padStart(BigIntToString(fractionalPart), digits)

\* getAmount() in its later form: the fractional part is written without its
\* sign.
getAmountAbsFraction(this) ==
  LET digits == getDefaultFractionDigits(this.currency)
      scaleFactor == Pow10(digits)
      integerPart == BigIntDiv(this.amount, scaleFactor)
      fractionalPart == BigIntRem(this.amount, scaleFactor)
      absFractionalPart == IF fractionalPart < 0 THEN -fractionalPart ELSE fractionalPart
  IN  IF digits = 0 THEN BigIntToString(integerPart)
      ELSE BigIntToString(integerPart) \o << "." >>
             \o padStart(BigIntToString(absFractionalPart), digits)

(***************************************************************************)
(* SpecAmount: one Money rendered as a decimal string.                     *)
(***************************************************************************)
RenderMoneys ==
  { MoneyOfMinor(n, c) : n \in (-MaxRenderAmount)..MaxRenderAmount,
                         c \in Loaded(LoadedRegistry) }

InitAmount ==
  /\ registry = LoadedRegistry
  /\ a \in RenderMoneys
  /\ b = a
  /\ op = "init"
  /\ args = NoArgs
  /\ result = NoResult

\* a.getAmount()
GetAmount == Call("getAmount", Ok(getAmount(a)))

\* a.getAmount(), later form
GetAmountAbsFraction == Call("getAmountAbsFraction", Ok(getAmountAbsFraction(a)))

NaNToBigInt == "RangeError: NaN cannot be converted to a BigInt"

\* Number(string) for a decimal numeral: an optional sign, digits, and at most
\* one point followed by digits; any other text gives NaN.
NumberOfString(chars) ==
  LET signed == Len(chars) > 0 /\ chars[1] \in {"-", "+"}
      body == IF signed THEN Tail(chars) ELSE chars
      point == IF HasPointIn(body)
               THEN CHOOSE i \in DOMAIN body : body[i] = "." /\ \A j \in 1..(i - 1) : body[j] # "."
               ELSE Len(body) + 1
      whole == SubSeq(body, 1, point - 1)
      fraction == SubSeq(body, point + 1, Len(body))
      magnitude == ParseDigits(whole) * Pow10(Len(fraction)) + ParseDigits(fraction)
  IN  IF /\ \A i \in DOMAIN whole : IsDigit(whole[i])
         /\ \A i \in DOMAIN fraction : IsDigit(fraction[i])
         /\ Len(whole) + Len(fraction) > 0
      THEN [nan |-> FALSE,
            value |-> Num(IF signed /\ chars[1] = "-" THEN -magnitude ELSE magnitude,
                          Pow10(Len(fraction)))]
      ELSE [nan |-> TRUE]

\* Money.of(value, currency) with a string: Number(value) is scaled and
\* rounded, and BigInt throws a RangeError on NaN.
MoneyOfString(chars, currency) ==
  IF NumberOfString(chars).nan THEN Throw(NaNToBigInt)
  ELSE Ok(MoneyOf(NumberOfString(chars).value, currency))

\* Money.of(a.getAmount(), currency of a), for either form of getAmount.
OfGetAmount ==
  /\ op \in {"getAmount", "getAmountAbsFraction"}
  /\ op' = IF op = "getAmount" THEN "getAmount.of" ELSE "getAmountAbsFraction.of"
  /\ args' = [value |-> result.value]
  /\ result' = MoneyOfString(result.value, a.currency)
  /\ UNCHANGED <<registry, a, b>>

NextAmount ==
  \/ GetAmount
  \/ GetAmountAbsFraction
  \/ OfGetAmount

SpecAmount == InitAmount /\ [][NextAmount]_vars

\* The characters of a string after its first decimal point.
AfterPoint(chars) ==
  SubSeq(chars, (CHOOSE i \in DOMAIN chars : chars[i] = "." /\ \A j \in 1..(i - 1) : chars[j] # ".") + 1,
         Len(chars))

HasPoint(chars) == \E i \in DOMAIN chars : chars[i] = "."

\* C20: for every amount, negative ones included, getAmount of a zero-scale
\* currency holds no decimal point, and getAmount of a currency of three
\* fraction digits holds exactly three decimal digits after the point.
C20_GetAmountFractionDigits ==
  (op \in {"getAmount", "getAmountAbsFraction"})
    => /\ a.currency.defaultFractionDigits = 0 => ~HasPoint(result.value)
       /\ a.currency.defaultFractionDigits = 3
            => /\ HasPoint(result.value)
               /\ Len(AfterPoint(result.value)) = 3
               /\ \A i \in 1..3 : IsDigit(AfterPoint(result.value)[i])

\* C29: for every Money, negative amounts included, a Money of the same
\* currency constructed from the string getAmount returned has the same minor
\* amount.
C29_GetAmountDenotesValue ==
  (op \in {"getAmount.of", "getAmountAbsFraction.of"})
    => /\ result.ok
       /\ result.value.amount = a.amount
       /\ result.value.currency = a.currency

(***************************************************************************)
(* SpecOps: every operation of Money on one receiver, with the receiver    *)
(* itself or a Money of another currency as the argument.                  *)
(***************************************************************************)
InitOps ==
  /\ registry = LoadedRegistry
  /\ a \in PairMoneys
  /\ b \in {a, MoneyOfMinor(1, CurrencyOf(LoadedRegistry, JPY).value)}
  /\ op = "init"
  /\ args = NoArgs
  /\ result = NoResult

NextOps ==
  \/ Next
  \/ MultipliedBy
  \/ Percentage
  \/ NextDiv
  \/ NextAlloc
  \/ NextAmount
  \/ NextSerial

SpecOps == InitOps /\ [][NextOps]_vars

\* C21: no operation changes the minor amount or the currency of its receiver
\* or of its argument, nor the contents of the currency registry.
C21_OperandsUnchanged ==
  [][a' = a /\ b' = b /\ registry' = registry]_vars

\* An operation returned a Money that differs from its receiver.
C21_Witness ==
  /\ op = "plus"
  /\ result.ok
  /\ b.amount # 0
  /\ result.value.amount # a.amount

(***************************************************************************)
(* SpecRegistry: the registry is loaded again while Money values exist;    *)
(* currencies are looked up, Money values constructed and combined.        *)
(***************************************************************************)
LowerUsd == << "u", "s", "d" >>

\* The data a caller passes to loadIsoCurrencies: a code in upper case, the
\* same code with another count of fraction digits, and a code in lower case.
RegistryLoads ==
  { << CurrencyEntry(USD, 840, 2) >>,
    << CurrencyEntry(USD, 840, 3) >>,
    << CurrencyEntry(LowerUsd, 840, 2) >>,
    << CurrencyEntry(EUR, 978, 2), CurrencyEntry(USD, 840, 2) >> }

\* The strings and numbers a caller passes to Currency.of.
CodeQueries == { USD, LowerUsd, << "U", "s", "d" >>, EUR, << "e", "u", "r" >> }
NumericQueries == { 840, 978, 392 }

InitRegistry ==
  /\ \E data \in RegistryLoads : registry = loadIsoCurrencies(EmptyMap, data)
  /\ a \in { MoneyOfMinor(n, c) : n \in (-MaxRegistryAmount)..MaxRegistryAmount,
                                   c \in Obtainable(registry) }
  /\ b \in { MoneyOfMinor(n, c) : n \in (-MaxRegistryAmount)..MaxRegistryAmount,
                                   c \in Obtainable(registry) }
  /\ op = "init"
  /\ args = NoArgs
  /\ result = NoResult

\* Currency.loadIsoCurrencies(data): the Money values built before keep the
\* Currency objects they were built with.
LoadIsoCurrencies ==
  \E data \in RegistryLoads :
    /\ op = "init"
    /\ registry' = loadIsoCurrencies(registry, data)
    /\ UNCHANGED <<a, b, op, args, result>>

\* A Money built with a currency looked up now takes the place of a or of b.
ConstructMoney ==
  \E n \in (-MaxRegistryAmount)..MaxRegistryAmount, c \in Obtainable(registry) :
    /\ op = "init"
    /\ \/ a' = MoneyOfMinor(n, c) /\ b' = b
       \/ b' = MoneyOfMinor(n, c) /\ a' = a
    /\ UNCHANGED <<registry, op, args, result>>

\* Currency.of(code) with a string
CurrencyOfCode ==
  \E code \in CodeQueries :
    /\ op = "init"
    /\ op' = "Currency.of"
    /\ args' = [code |-> code]
    /\ result' = CurrencyOf(registry, code)
    /\ UNCHANGED <<registry, a, b>>

\* Currency.of(code) with a number
CurrencyOfNumber ==
  \E code \in NumericQueries :
    /\ op = "init"
    /\ op' = "Currency.of.numeric"
    /\ args' = [code |-> code]
    /\ result' = CurrencyOfNumeric(registry, code)
    /\ UNCHANGED <<registry, a, b>>

NextRegistry ==
  \/ LoadIsoCurrencies
  \/ ConstructMoney
  \/ CurrencyOfCode
  \/ CurrencyOfNumber
  \/ Plus
  \/ Minus
  \/ CompareTo

SpecRegistry == InitRegistry /\ [][NextRegistry]_vars

\* Some loaded descriptor has the code, letter case apart.
LoadedIgnoringCase(currencies, code) ==
  \E i \in DOMAIN currencies :
    ToUpperCase(currencies[i].value.code) = ToUpperCase(code)

\* C22: Currency.of(code) finds a loaded currency whatever the letter case of
\* the argument and whatever the letter case of the stored code.
C22_LookupIgnoresCase ==
  (op = "Currency.of" /\ LoadedIgnoringCase(registry, args.code))
    => /\ result.ok
       /\ ToUpperCase(result.value.code) = ToUpperCase(args.code)

\* C26: two Money values that plus, minus or compareTo accepts as being of the
\* same currency have the same count of fraction digits.
C26_AcceptedOperandsShareScale ==
  (op \in {"plus", "minus", "compareTo"} /\ result.ok)
    => a.currency.defaultFractionDigits = b.currency.defaultFractionDigits

(***************************************************************************)
(* The documented example of allocate, read through getAmount.             *)
(***************************************************************************)
\* The state records Money.of(100, USD).allocate(1, 1, 2).
AllocateExampleCalled ==
  /\ op = "allocate"
  /\ a = MoneyOf(Whole(100), CurrencyOf(LoadedRegistry, USD).value)
  /\ args.ratios = << Whole(1), Whole(1), Whole(2) >>

\* The decimal strings of the shares returned.
ShareAmounts == [i \in DOMAIN result.value |-> getAmount(result.value[i])]

\* C23 as stated: Money.of(100, USD).allocate(1, 1, 2) returns the shares
\* 2.50, 2.50 and 5.00, in that order.
C23_AllocateExampleAsStated ==
  AllocateExampleCalled
    => /\ result.ok
       /\ ShareAmounts = << << "2", ".", "5", "0" >>, << "2", ".", "5", "0" >>,
                            << "5", ".", "0", "0" >> >>

\* C23 amended: Money.of(100, USD).allocate(1, 1, 2) returns the shares
\* 25.00, 25.00 and 50.00, in that order.
C23_AllocateExample ==
  AllocateExampleCalled
    => /\ result.ok
       /\ ShareAmounts = << << "2", "5", ".", "0", "0" >>, << "2", "5", ".", "0", "0" >>,
                            << "5", "0", ".", "0", "0" >> >>

\* The example was called and returned three shares.
C23_Witness ==
  /\ AllocateExampleCalled
  /\ result.ok
  /\ Len(result.value) = 3
  /\ result.value[3].amount = 5000

====
